---- MODULE Spec2Model ----
(***************************************************************************)
(* EFRuntime: the micro-frontend runtime orchestrator of ef-runtime-client. *)
(*                                                                         *)
(* src/packages/ef-runtime-client/src/EFRuntime/EFRuntime.ts holds two     *)
(* revisions of the class.  Revision 1 (lines 12-92) keeps one combined    *)
(* URL per component, initialises the module loader next to the registry   *)
(* fetch and imports modules asynchronously.  Revision 2 (lines 106-219)   *)
(* keeps a {js, css} record per component, validates it and creates the    *)
(* module script synchronously.  The variable `variant` says which         *)
(* revision a behaviour runs.                                              *)
(*                                                                         *)
(* JavaScript runs every synchronous stretch of code to completion, so     *)
(* each action below is one such stretch: a public call up to its first    *)
(* suspension, or the resumption of an await.                              *)
(***************************************************************************)
EXTENDS Integers, Sequences, FiniteSets

VARIABLES
    variant,       \* which revision of EFRuntime the behaviour runs
    behaviour,     \* what the collaborators do for each component
    localStorage,  \* the persisted "ef-overrides" slot (absent, or a layer)
    registry,      \* the registry collaborator's mapping
    fetched,       \* TRUE once a registry fetch has completed
    calls,         \* the public calls made so far, in order
    tasks          \* the load attempts started so far, in order

vars == <<variant, behaviour, localStorage, registry, fetched, calls, tasks>>

----------------------------------------------------------------------------
(* Bounds and input sets *)

\* how many times the caller calls load(component) directly
MaxLoads == 1

Names == {"A", "B"}
NameOrder == <<"A", "B">>

Null == "null"
NoError == "none"

\* !v in JavaScript, for the string-or-null values of the model
Falsy(v) == v \in {Null, ""}

EmptyMap == [c \in {} |-> Null]

\* a module behaviour: what addStyling, the module loader and the two
\* lifecycle hooks do for a component
Kind(style, imp, ini, mnt) == [style |-> style, imp |-> imp, init |-> ini, mount |-> mnt]
KindOk == Kind("ok", "ok", "ok", "ok")
KindImportRejects == Kind("ok", "reject", "ok", "ok")
KindInitRejects == Kind("ok", "ok", "reject", "ok")
KindMountRejects == Kind("ok", "ok", "ok", "reject")
KindInitOnly == Kind("ok", "ok", "ok", "none")
KindMountOnly == Kind("ok", "ok", "none", "ok")
KindNoHooks == Kind("ok", "ok", "none", "none")
KindStyleThrows == Kind("throw", "ok", "ok", "ok")
\* a module whose init hook never settles
KindInitHangs == Kind("ok", "ok", "hang", "ok")
\* a module whose mount hook never settles
KindMountHangs == Kind("ok", "ok", "ok", "hang")
\* a module whose resolution never settles (revision 1 awaits importModule;
\* revision 2's createModuleScript returns at once and cannot stay pending)
KindImportHangs == Kind("ok", "hang", "ok", "ok")

\* the environments a behaviour may run in: what the collaborators do for
\* each component, and whether the "ef-overrides" slot is filled
Scenarios ==
    { [modules |-> [A |-> KindImportRejects, B |-> KindOk], persisted |-> TRUE],
      [modules |-> [A |-> KindOk, B |-> KindInitRejects], persisted |-> FALSE],
      [modules |-> [A |-> KindOk, B |-> KindMountRejects], persisted |-> TRUE],
      [modules |-> [A |-> KindInitOnly, B |-> KindMountOnly], persisted |-> FALSE],
      [modules |-> [A |-> KindNoHooks, B |-> KindStyleThrows], persisted |-> TRUE],
      [modules |-> [A |-> KindInitHangs, B |-> KindOk], persisted |-> FALSE],
      [modules |-> [A |-> KindOk, B |-> KindImportHangs], persisted |-> FALSE],
      [modules |-> [A |-> KindMountHangs, B |-> KindOk], persisted |-> FALSE] }

SystemCodes == {"sys1", "sys2", "sys3"}

\* what the registry service holds for a system code
Remote(v, sc) ==
    IF v = 1
    THEN CASE sc = "sys1" -> [A |-> "a", B |-> "b"]
           [] sc = "sys2" -> [B |-> "b"]
           [] OTHER -> EmptyMap
    ELSE CASE sc = "sys1" -> [A |-> [js |-> "a.js", css |-> "a.css"],
                              B |-> [js |-> "b.js", css |-> "b.css"]]
           [] sc = "sys2" -> [A |-> [js |-> Null, css |-> "a.css"],
                              B |-> [js |-> "b.js", css |-> "b.css"]]
           [] OTHER -> [A |-> [js |-> "a.js", css |-> Null],
                        B |-> [js |-> Null, css |-> Null]]

\* the layer the "ef-overrides" slot holds: a name mapped to one URL string,
\* whichever revision runs
PersistedLayer == [A |-> "a3"]

NoOptions == [k \in {} |-> ""]

CallerLayer(v) ==
    IF v = 1 THEN [A |-> "a2"] ELSE [A |-> [js |-> "a2.js", css |-> "a2.css"]]

OptionsSet(v) ==
    { NoOptions,
      [systemCode |-> ""],
      [overrides |-> CallerLayer(v)],
      [systemCode |-> "sys1"],
      [systemCode |-> "sys1", overrides |-> CallerLayer(v)],
      [systemCode |-> "sys2"],
      [systemCode |-> "sys2", overrides |-> EmptyMap],
      [systemCode |-> "sys3"] }

----------------------------------------------------------------------------
(* Small helpers *)

Has(o, k) == k \in DOMAIN o

Event(op, arg) == [op |-> op, arg |-> arg]

Log(sink, msg, err) == [sink |-> sink, msg |-> msg, error |-> err]

RECURSIVE join(_, _)
\* Array.prototype.join
join(parts, sep) ==
    IF Len(parts) = 0 THEN ""
    ELSE IF Len(parts) = 1 THEN parts[1]
    ELSE parts[1] \o sep \o join(Tail(parts), sep)

\* Object.keys(registry.getRegistry()), in insertion order
Keys(reg) == SelectSeq(NameOrder, LAMBDA c : c \in DOMAIN reg)

----------------------------------------------------------------------------
(* The collaborators the orchestrator is given *)

\* registry.getURL(component): the entry, or undefined when there is none
getURL(v, reg, c) ==
    IF c \in DOMAIN reg THEN [found |-> TRUE, value |-> reg[c]]
    ELSE [found |-> FALSE,
          value |-> IF v = 1 THEN Null ELSE [js |-> Null, css |-> Null]]

\* registry.applyOverrides(layer): a last-write-wins patch over the mapping
applyOverrides(reg, layer) ==
    [c \in DOMAIN reg \cup DOMAIN layer |->
        IF c \in DOMAIN layer THEN layer[c] ELSE reg[c]]

----------------------------------------------------------------------------
(* One load attempt *)

NewTask(callId, c, batch) ==
    [call |-> callId, component |-> c, batch |-> batch,
     found |-> FALSE, url |-> Null, js |-> Null, css |-> Null,
     pc |-> "start", promise |-> "pending", caught |-> FALSE,
     events |-> <<>>, logs |-> <<>>, unhandled |-> <<>>]

Did(t, e) == [t EXCEPT !.events = Append(@, e)]

Report(t, l) == [t EXCEPT !.logs = Append(@, l)]

\* does the module expose the hook
Exposes(k, hook) == k[hook] # "none"

\* executeLifecycleMethods, from `if (componentModule?.mount)` on
mountPhase(t, k) ==
    IF Exposes(k, "mount")
    THEN [Did(t, Event("mount", "")) EXCEPT !.pc = "awaitMount"]
    ELSE [t EXCEPT !.pc = "done"]

\* an executeLifecycleMethods that calls init and goes on to mount without
\* awaiting it
executeLifecycleMethods_initNotAwaited(t, k) ==
    IF Exposes(k, "init")
    THEN mountPhase(Did(t, Event("init", "")), k)
    ELSE mountPhase(t, k)

\* executeLifecycleMethods, up to its first suspension
executeLifecycleMethods(t, k) ==
    IF Exposes(k, "init")
    THEN [Did(t, Event("init", "")) EXCEPT !.pc = "awaitInit"]
    ELSE mountPhase(t, k)

\* revision 1: the .catch handler loadAll's for loop puts on each load
caught1(t) ==
    IF t.promise = "rejected" /\ t.batch = 1
    THEN [Report(t, Log("logger", "Failed to initialise and mount " \o t.component,
                        t.unhandled[1]))
             EXCEPT !.caught = TRUE]
    ELSE t

\* revision 1: load's promise resolves once the awaited lifecycle is over
returned1(t) ==
    caught1(IF t.pc = "done" THEN [t EXCEPT !.promise = "resolved"] ELSE t)

\* revision 1: the catch block of load
catch1(t, err) ==
    [Report(t, Log("logger",
                   "Error when mounting component " \o t.component \o " using SystemJS",
                   err))
        EXCEPT !.pc = "failed", !.promise = "resolved"]

\* revision 1: load, up to `await this.moduleLoader.importModule(...)`
load1(callId, c, batch, reg, k) ==
    LET url == getURL(1, reg, c)
        t0 == Did(NewTask(callId, c, batch), Event("getURL", c))
        t1 == [t0 EXCEPT !.found = url.found, !.url = url.value]
    IN  IF ~url.found \/ Falsy(url.value)
        THEN [Report(t1, Log("logger",
                   "Component " \o c \o " was not found in the Component Registry",
                   NoError))
                EXCEPT !.pc = "skipped", !.promise = "resolved"]
        ELSE LET t2 == Did(t1, Event("addStyling", url.value))
             IN  IF k.style = "throw" THEN catch1(t2, "StylingError")
                 ELSE [Did(t2, Event("importModule", url.value \o "/js"))
                          EXCEPT !.pc = "awaitImport"]

\* a getComponentURL that reports nothing
getComponentURL_silent(t, reg) ==
    LET urlInfo == getURL(2, reg, t.component)
    IN  [Did(t, Event("getURL", t.component))
            EXCEPT !.found = urlInfo.found,
                   !.js = urlInfo.value.js, !.css = urlInfo.value.css]

\* revision 2: getComponentURL
getComponentURL(t, reg) ==
    LET urlInfo == getURL(2, reg, t.component)
        t1 == [Did(t, Event("getURL", t.component))
                  EXCEPT !.found = urlInfo.found,
                         !.js = urlInfo.value.js, !.css = urlInfo.value.css]
    IN  IF ~urlInfo.found
        THEN Report(t1, Log("console",
                 "Failed to retrieve URL for component " \o t.component, NoError))
        ELSE t1

\* a missingParts that tests the stylesheet first
missingParts_cssFirst(js, css) ==
    (IF Falsy(css) THEN <<"CSS">> ELSE <<>>) \o (IF Falsy(js) THEN <<"JS">> ELSE <<>>)

\* revision 2: the missingParts array of isValidURL
missingParts(js, css) ==
    (IF Falsy(js) THEN <<"JS">> ELSE <<>>) \o (IF Falsy(css) THEN <<"CSS">> ELSE <<>>)

\* revision 2: isValidURL, its result and what it reports
isValidURL(js, css, component) ==
    LET isValid == ~Falsy(js) /\ ~Falsy(css)
    IN  [isValid |-> isValid,
         logs |-> IF ~isValid
                  THEN <<Log("console",
                             "Missing " \o join(missingParts(js, css), " and ")
                                 \o " URL for component " \o component,
                             NoError)>>
                  ELSE <<>>]

\* revision 2: the .catch handler loadAll puts on each load
caught2(t) ==
    IF t.promise = "rejected" /\ t.batch = 1
    THEN [Report(t, Log("console", "Error loading " \o t.component, t.unhandled[1]))
             EXCEPT !.caught = TRUE]
    ELSE t

\* revision 2: loadComponent; its lifecycle call is not awaited
loadComponent(t, js, css, k) ==
    LET t1 == Did(t, Event("addStyling", css))
    IN  IF k.style = "throw"
        THEN [t1 EXCEPT !.pc = "failed", !.promise = "rejected",
                        !.unhandled = <<"StylingError">>]
        ELSE LET t2 == Did(t1, Event("createModuleScript", js))
             IN  IF k.imp = "reject"
                 THEN [Report(t2, Log("console",
                           "Failed to load component " \o t.component \o " using SystemJS",
                           "ImportError"))
                          EXCEPT !.pc = "failed", !.promise = "resolved"]
                 ELSE [executeLifecycleMethods(t2, k) EXCEPT !.promise = "resolved"]

\* a load that reports an invalid entry and loads the component all the same
load2_loadsInvalid(callId, c, batch, reg, k) ==
    LET t1 == getComponentURL(NewTask(callId, c, batch), reg)
    IN  IF ~t1.found
        THEN [t1 EXCEPT !.pc = "skipped", !.promise = "resolved"]
        ELSE LET valid == isValidURL(t1.js, t1.css, c)
             IN  loadComponent([t1 EXCEPT !.logs = @ \o valid.logs], t1.js, t1.css, k)

\* a load that hands the two URLs over in the wrong order
load2_swapped(callId, c, batch, reg, k) ==
    LET t1 == getComponentURL(NewTask(callId, c, batch), reg)
    IN  IF ~t1.found
        THEN [t1 EXCEPT !.pc = "skipped", !.promise = "resolved"]
        ELSE LET valid == isValidURL(t1.js, t1.css, c)
             IN  IF ~valid.isValid
                 THEN [t1 EXCEPT !.logs = @ \o valid.logs,
                                 !.pc = "skipped", !.promise = "resolved"]
                 ELSE loadComponent(t1, t1.css, t1.js, k)

\* a load that keeps one attempt per component: a component that has been
\* loaded before is not loaded again
load2_dedup(callId, c, batch, reg, k) ==
    LET t1 == getComponentURL(NewTask(callId, c, batch), reg)
    IN  IF ~t1.found \/ \E n \in DOMAIN tasks : tasks[n].component = c /\ tasks[n].found
        THEN [t1 EXCEPT !.pc = "skipped", !.promise = "resolved"]
        ELSE LET valid == isValidURL(t1.js, t1.css, c)
             IN  IF ~valid.isValid
                 THEN [t1 EXCEPT !.logs = @ \o valid.logs,
                                 !.pc = "skipped", !.promise = "resolved"]
                 ELSE loadComponent(t1, t1.js, t1.css, k)

\* revision 2: load
load2(callId, c, batch, reg, k) ==
    LET t1 == getComponentURL(NewTask(callId, c, batch), reg)
    IN  IF ~t1.found
        THEN [t1 EXCEPT !.pc = "skipped", !.promise = "resolved"]
        ELSE LET valid == isValidURL(t1.js, t1.css, c)
             IN  IF ~valid.isValid
                 THEN [t1 EXCEPT !.logs = @ \o valid.logs,
                                 !.pc = "skipped", !.promise = "resolved"]
                 ELSE loadComponent(t1, t1.js, t1.css, k)

\* revision 1: loadAll starts every load twice, once in the for loop (with a
\* catch handler) and once more for Promise.allSettled
loadAll1(callId, reg, beh) ==
    LET components == Keys(reg)
    IN  [n \in 1..Len(components) |->
            load1(callId, components[n], 1, reg, beh[components[n]])]
        \o [n \in 1..Len(components) |->
            load1(callId, components[n], 2, reg, beh[components[n]])]

\* a loadAll that loads the components in turn and gives up at the first
\* one that fails
loadAll2_untilFailure(callId, reg, beh) ==
    LET components == Keys(reg)
        all == [n \in 1..Len(components) |->
                   caught2(load2(callId, components[n], 1, reg, beh[components[n]]))]
        failed == { n \in DOMAIN all : all[n].pc = "failed" }
        last == IF failed = {} THEN Len(all)
                ELSE CHOOSE n \in failed : \A m \in failed : n <= m
    IN  SubSeq(all, 1, last)

\* a loadAll that loads the components one after the other: the next load is
\* not started before the hooks of the one before have completed
loadAll2_sequential(callId, reg, beh) ==
    LET components == Keys(reg)
        all == [n \in 1..Len(components) |->
                   caught2(load2(callId, components[n], 1, reg, beh[components[n]]))]
        waiting == { n \in DOMAIN all : all[n].pc \in {"awaitInit", "awaitMount"} }
        last == IF waiting = {} THEN Len(all)
                ELSE CHOOSE n \in waiting : \A m \in waiting : n <= m
    IN  SubSeq(all, 1, last)

\* revision 2: loadAll
loadAll2(callId, reg, beh) ==
    LET components == Keys(reg)
    IN  [n \in 1..Len(components) |->
            caught2(load2(callId, components[n], 1, reg, beh[components[n]]))]

----------------------------------------------------------------------------
(* init *)

\* validateOptions that tests for the option's presence only and lets the
\* empty string through
validateOptions_presenceOnly(options) ==
    IF ~Has(options, "systemCode")
    THEN "Must provide a systemCode option"
    ELSE NoError

\* validateOptions: the message of the error it throws, or NoError
validateOptions(options) ==
    IF ~Has(options, "systemCode") \/ Falsy(options.systemCode)
    THEN "Must provide a systemCode option"
    ELSE NoError

NewCall(op, options) ==
    [op |-> op, options |-> options, stage |-> "settled", state |-> "pending",
     error |-> NoError, ml |-> "none", fetch |-> "none", events |-> <<>>]

\* revision 1: init, up to `await Promise.all([...])`
init1(options) ==
    IF validateOptions(options) # NoError
    THEN [NewCall("init", options) EXCEPT !.state = "rejected",
                                          !.error = validateOptions(options)]
    ELSE [NewCall("init", options) EXCEPT
             !.stage = "awaitFetch", !.ml = "pending", !.fetch = "pending",
             !.events = <<Event("moduleLoader.init", ""),
                          Event("fetch", options.systemCode)>>]

\* revision 2: init, up to `await this.registry.fetch(...)`
init2(options) ==
    IF validateOptions(options) # NoError
    THEN [NewCall("init", options) EXCEPT !.state = "rejected",
                                          !.error = validateOptions(options)]
    ELSE [NewCall("init", options) EXCEPT
             !.stage = "awaitFetch", !.fetch = "pending",
             !.events = <<Event("fetch", options.systemCode)>>]

\* an init that does not wait for the fetch
awaited_withoutFetch(call) == call.ml \in {"none", "resolved"}

\* is the await of init over: revision 1 awaits the module loader and the
\* fetch together, revision 2 the fetch alone
awaited(call) == call.fetch = "resolved" /\ call.ml \in {"none", "resolved"}

\* an init that starts the loads and applies the caller's overrides afterwards
initResumed_overridesLast(v, callId, call, reg, beh) ==
    LET hasOverrides == Has(call.options, "overrides")
        reg2 == IF hasOverrides
                THEN applyOverrides(reg, call.options.overrides) ELSE reg
        ev == <<Event("loadAll", Keys(reg))>>
              \o (IF hasOverrides
                  THEN <<Event("applyOverrides", call.options.overrides)>> ELSE <<>>)
    IN  [call |-> [call EXCEPT !.stage = "awaitLoadAll", !.events = @ \o ev],
         registry |-> reg2,
         started |-> IF v = 1 THEN loadAll1(callId, reg, beh)
                     ELSE loadAll2(callId, reg, beh)]

\* init after its await: the caller's overrides, then loadAll
\* (the persisted "ef-overrides" slot is not read by either revision)
initResumed(v, callId, call, reg, beh) ==
    LET hasOverrides == Has(call.options, "overrides")
        reg2 == IF hasOverrides
                THEN applyOverrides(reg, call.options.overrides) ELSE reg
        ev == (IF hasOverrides
               THEN <<Event("applyOverrides", call.options.overrides)>> ELSE <<>>)
              \o <<Event("loadAll", Keys(reg2))>>
    IN  [call |-> [call EXCEPT !.stage = "awaitLoadAll", !.events = @ \o ev],
         registry |-> reg2,
         started |-> IF v = 1 THEN loadAll1(callId, reg2, beh)
                     ELSE loadAll2(callId, reg2, beh)]

----------------------------------------------------------------------------
(* Resumptions of one load attempt *)

\* revision 2: a rejection of the lifecycle promise nobody awaits
unhandled2(t, err) ==
    [t EXCEPT !.pc = "failed", !.unhandled = Append(@, err)]

\* revision 1: load resumes from `await importModule(...)`
importSettled(t, k) ==
    IF k.imp = "ok"
    THEN returned1(executeLifecycleMethods(Did(t, Event("importResolved", "")), k))
    ELSE catch1(Did(t, Event("importRejected", "")), "ImportError")

\* an executeLifecycleMethods that swallows a rejection of init and goes on
\* to mount
initSettled_mountsAnyway(v, t, k) ==
    LET t1 == mountPhase(Did(t, Event(IF k.init = "ok" THEN "initDone"
                                      ELSE "initRejected", "")), k)
    IN  IF v = 1 THEN returned1(t1) ELSE t1

\* executeLifecycleMethods resumes from `await componentModule.init()`
initSettled(v, t, k) ==
    IF k.init = "ok"
    THEN LET t1 == mountPhase(Did(t, Event("initDone", "")), k)
         IN  IF v = 1 THEN returned1(t1) ELSE t1
    ELSE LET t1 == Did(t, Event("initRejected", ""))
         IN  IF v = 1 THEN catch1(t1, "InitError") ELSE unhandled2(t1, "InitError")

\* executeLifecycleMethods resumes from `await componentModule.mount()`
mountSettled(v, t, k) ==
    IF k.mount = "ok"
    THEN LET t1 == [Did(t, Event("mountDone", "")) EXCEPT !.pc = "done"]
         IN  IF v = 1 THEN returned1(t1) ELSE t1
    ELSE LET t1 == Did(t, Event("mountRejected", ""))
         IN  IF v = 1 THEN catch1(t1, "MountError") ELSE unhandled2(t1, "MountError")

----------------------------------------------------------------------------
(* The state machine *)

Variants == {1, 2}

\* the storage with the "ef-overrides" slot filled (the JSON text it holds is
\* kept as the layer it encodes), or without the key
Storage(persisted) ==
    IF persisted THEN [key \in {"ef-overrides"} |-> PersistedLayer] ELSE EmptyMap

Init ==
    /\ variant \in Variants
    /\ \E s \in Scenarios :
          /\ behaviour = s.modules
          /\ localStorage = Storage(s.persisted)
    /\ registry = EmptyMap
    /\ fetched = FALSE
    /\ calls = <<>>
    /\ tasks = <<>>

\* the public calls made so far of the given kinds; a behaviour follows one
\* batch (an init call, or a direct loadAll call) and the direct load calls
\* made before, during and after it
Count(cs, ops) == Cardinality({ i \in DOMAIN cs : cs[i].op \in ops })

\* the task a public load call started
TaskOf(ts, callId) == ts[CHOOSE n \in DOMAIN ts : ts[n].call = callId]

\* a public load call returns the promise of its load attempt
loadCallsSettled(cs, ts) ==
    [i \in DOMAIN cs |->
        IF cs[i].op = "load" /\ cs[i].state = "pending"
        THEN [cs[i] EXCEPT !.state = TaskOf(ts, i).promise,
                           !.error = IF TaskOf(ts, i).promise = "rejected"
                                     THEN TaskOf(ts, i).unhandled[1] ELSE NoError]
        ELSE cs[i]]

\* the caller calls init(options)
CallInit(options) ==
    /\ Count(calls, {"init", "loadAll"}) = 0
    /\ calls' = Append(calls, IF variant = 1 THEN init1(options) ELSE init2(options))
    /\ UNCHANGED <<variant, behaviour, localStorage, registry, fetched, tasks>>

\* the caller calls loadAll()
CallLoadAll ==
    /\ Count(calls, {"init", "loadAll"}) = 0
    /\ calls' = Append(calls, [NewCall("loadAll", NoOptions) EXCEPT
                                 !.stage = "awaitLoadAll",
                                 !.events = <<Event("loadAll", Keys(registry))>>])
    /\ tasks' = tasks \o (IF variant = 1
                          THEN loadAll1(Len(calls) + 1, registry, behaviour)
                          ELSE loadAll2(Len(calls) + 1, registry, behaviour))
    /\ UNCHANGED <<variant, behaviour, localStorage, registry, fetched>>

\* the caller calls load(c)
CallLoad(c) ==
    /\ Count(calls, {"load"}) < MaxLoads
    /\ LET callId == Len(calls) + 1
           t == IF variant = 1 THEN load1(callId, c, 0, registry, behaviour[c])
                ELSE load2(callId, c, 0, registry, behaviour[c])
       IN  /\ tasks' = Append(tasks, t)
           /\ calls' = loadCallsSettled(
                  Append(calls, NewCall("load", [component |-> c])), tasks')
    /\ UNCHANGED <<variant, behaviour, localStorage, registry, fetched>>

\* the registry's fetch resolves: the registry holds the fetched mapping.
\* The init that awaits it resumes in a later turn of the event loop
\* (InitResume); a callback that runs in between reads the fetched mapping
\* as it is, before the overrides
FetchResolve(i) ==
    /\ calls[i].fetch = "pending"
    /\ fetched' = TRUE
    /\ registry' = Remote(variant, calls[i].options.systemCode)
    /\ calls' = [calls EXCEPT ![i] =
          [@ EXCEPT !.fetch = "resolved",
                    !.events = Append(@, Event("fetchResolved", ""))]]
    /\ UNCHANGED <<variant, behaviour, localStorage, tasks>>

\* init resumes from its await: it applies the caller's overrides to the
\* registry as it finds it and calls loadAll
InitResume(i) ==
    /\ calls[i].stage = "awaitFetch"
    /\ calls[i].state = "pending"
    /\ awaited(calls[i])
    /\ LET r == initResumed(variant, i, calls[i], registry, behaviour)
       IN  /\ calls' = [calls EXCEPT ![i] = r.call]
           /\ registry' = r.registry
           /\ tasks' = tasks \o r.started
    /\ UNCHANGED <<variant, behaviour, localStorage, fetched>>

\* an init that swallows the failure of the fetch
fetchRejected_swallowed(call) == [call EXCEPT !.fetch = "rejected"]

\* init's await of the fetch throws: init rejects with the failure, unless
\* the module loader's failure has rejected it already (revision 1)
fetchRejected(call) ==
    IF call.state = "pending"
    THEN [call EXCEPT !.fetch = "rejected", !.state = "rejected",
                      !.stage = "settled", !.error = "FetchError"]
    ELSE [call EXCEPT !.fetch = "rejected"]

\* the registry's fetch rejects; init rejects with it
FetchReject(i) ==
    /\ calls[i].fetch = "pending"
    /\ calls' = [calls EXCEPT ![i] = fetchRejected(@)]
    /\ UNCHANGED <<variant, behaviour, localStorage, registry, fetched, tasks>>

\* revision 1: moduleLoader.init() resolves
ModuleLoaderInitResolve(i) ==
    /\ calls[i].ml = "pending"
    /\ calls' = [calls EXCEPT ![i] = [@ EXCEPT !.ml = "resolved"]]
    /\ UNCHANGED <<variant, behaviour, localStorage, registry, fetched, tasks>>

\* revision 1: moduleLoader.init() rejects; init rejects with it
ModuleLoaderInitReject(i) ==
    /\ calls[i].ml = "pending"
    /\ calls' = [calls EXCEPT ![i] =
          IF @.state = "pending"
          THEN [@ EXCEPT !.ml = "rejected", !.state = "rejected",
                         !.stage = "settled", !.error = "ModuleLoaderError"]
          ELSE [@ EXCEPT !.ml = "rejected"]]
    /\ UNCHANGED <<variant, behaviour, localStorage, registry, fetched, tasks>>

\* the load attempts whose promises loadAll awaits: in revision 1 those of
\* Promise.allSettled, in revision 2 every one
Awaited(ts, callId) ==
    { n \in DOMAIN ts : ts[n].call = callId /\ ts[n].batch = (IF variant = 1 THEN 2 ELSE 1) }

\* what the promise loadAll awaits settles to: Promise.allSettled (revision 1)
\* always resolves, Promise.all (revision 2) rejects with a rejection no
\* handler took
allOutcome(v, ts, awaitedTasks) ==
    IF v = 2 /\ \E n \in awaitedTasks : ts[n].promise = "rejected" /\ ~ts[n].caught
    THEN "rejected"
    ELSE "resolved"

\* the promise of loadAll (and of the init that returned it) settles
LoadAllSettle(i) ==
    /\ calls[i].stage = "awaitLoadAll"
    /\ \A n \in Awaited(tasks, i) : tasks[n].promise # "pending"
    /\ calls' = [calls EXCEPT ![i] =
          [@ EXCEPT !.stage = "settled",
                    !.state = allOutcome(variant, tasks, Awaited(tasks, i)),
                    !.error = IF allOutcome(variant, tasks, Awaited(tasks, i)) = "rejected"
                              THEN "LoadError" ELSE NoError]]
    /\ UNCHANGED <<variant, behaviour, localStorage, registry, fetched, tasks>>

\* revision 1: the module loader settles importModule
ImportSettle(n) ==
    /\ tasks[n].pc = "awaitImport"
    /\ behaviour[tasks[n].component].imp # "hang"
    /\ tasks' = [tasks EXCEPT ![n] = importSettled(@, behaviour[@.component])]
    /\ calls' = loadCallsSettled(calls, tasks')
    /\ UNCHANGED <<variant, behaviour, localStorage, registry, fetched>>

\* the module's init hook settles
InitHookSettle(n) ==
    /\ tasks[n].pc = "awaitInit"
    /\ behaviour[tasks[n].component].init # "hang"
    /\ tasks' = [tasks EXCEPT ![n] = initSettled(variant, @, behaviour[@.component])]
    /\ calls' = loadCallsSettled(calls, tasks')
    /\ UNCHANGED <<variant, behaviour, localStorage, registry, fetched>>

\* the module's mount hook settles
MountHookSettle(n) ==
    /\ tasks[n].pc = "awaitMount"
    /\ behaviour[tasks[n].component].mount # "hang"
    /\ tasks' = [tasks EXCEPT ![n] = mountSettled(variant, @, behaviour[@.component])]
    /\ calls' = loadCallsSettled(calls, tasks')
    /\ UNCHANGED <<variant, behaviour, localStorage, registry, fetched>>

Next ==
    \/ \E options \in OptionsSet(variant) : CallInit(options)
    \/ CallLoadAll
    \/ \E c \in Names : CallLoad(c)
    \/ \E i \in DOMAIN calls : FetchResolve(i)
    \/ \E i \in DOMAIN calls : FetchReject(i)
    \/ \E i \in DOMAIN calls : InitResume(i)
    \/ \E i \in DOMAIN calls : ModuleLoaderInitResolve(i)
    \/ \E i \in DOMAIN calls : ModuleLoaderInitReject(i)
    \/ \E i \in DOMAIN calls : LoadAllSettle(i)
    \/ \E n \in DOMAIN tasks : ImportSettle(n)
    \/ \E n \in DOMAIN tasks : InitHookSettle(n)
    \/ \E n \in DOMAIN tasks : MountHookSettle(n)

Spec == Init /\ [][Next]_vars

\* The event loop runs every callback that is ready: a module-loader promise
\* or a hook that settles (the scenarios fix which ones do) resumes its load
\* attempt, a loadAll whose awaited promises have settled resumes too, and so
\* does an init whose awaited promises have resolved.
FairSpec ==
    /\ Spec
    /\ WF_vars(\E n \in DOMAIN tasks : ImportSettle(n))
    /\ WF_vars(\E n \in DOMAIN tasks : InitHookSettle(n))
    /\ WF_vars(\E n \in DOMAIN tasks : MountHookSettle(n))
    /\ WF_vars(\E i \in DOMAIN calls : LoadAllSettle(i))
    /\ WF_vars(\E i \in DOMAIN calls : InitResume(i))

----------------------------------------------------------------------------
(* Reading the recorded calls *)

\* the positions in a trace of the events of one operation
At(events, op) == { n \in DOMAIN events : events[n].op = op }

\* the first such position, 0 when there is none
First(events, op) ==
    IF At(events, op) = {} THEN 0
    ELSE CHOOSE n \in At(events, op) : \A m \in At(events, op) : n <= m

\* the load attempts a call started
TasksOf(callId) == { n \in DOMAIN tasks : tasks[n].call = callId }

InitCalls == { i \in DOMAIN calls : calls[i].op = "init" }

\* options.systemCode is absent or the empty string
LacksSystemCode(options) ==
    \/ "systemCode" \notin DOMAIN options
    \/ options.systemCode = ""

----------------------------------------------------------------------------
(* C1 *)

\* C1: an init call whose options lack systemCode (absent or empty) rejects
\* with "Must provide a systemCode option", and in that call neither the
\* registry's fetch nor the module loader's init nor applyOverrides is
\* called and no component load is started.
C1_InvalidOptionsRejectUntouched ==
    \A i \in InitCalls :
        LacksSystemCode(calls[i].options) =>
            /\ calls[i].state = "rejected"
            /\ calls[i].error = "Must provide a systemCode option"
            /\ calls[i].events = <<>>
            /\ calls[i].fetch = "none"
            /\ calls[i].ml = "none"
            /\ TasksOf(i) = {}

\* an init call with the empty string as systemCode has been made and rejected
C1_Witness ==
    \E i \in InitCalls :
        /\ "systemCode" \in DOMAIN calls[i].options
        /\ calls[i].options.systemCode = ""
        /\ calls[i].state = "rejected"

----------------------------------------------------------------------------
(* C2 *)

\* C2: an init call with a non-empty systemCode calls the registry's fetch
\* exactly once, with that systemCode, and the fetch has completed before
\* applyOverrides is called and before any component's load begins.
C2_FetchOnceBeforeLoads ==
    \A i \in InitCalls :
        ~LacksSystemCode(calls[i].options) =>
            LET ev == calls[i].events
                done == First(ev, "fetchResolved")
            IN  /\ Cardinality(At(ev, "fetch")) = 1
                /\ ev[First(ev, "fetch")].arg = calls[i].options.systemCode
                /\ \A n \in At(ev, "applyOverrides") \cup At(ev, "loadAll") :
                       0 < done /\ done < n
                /\ TasksOf(i) # {} =>
                       calls[i].fetch = "resolved" /\ First(ev, "loadAll") > done

\* an init call has fetched, applied overrides and started loads
C2_Witness ==
    \E i \in InitCalls :
        /\ calls[i].fetch = "resolved"
        /\ At(calls[i].events, "applyOverrides") # {}
        /\ \E n \in TasksOf(i) : First(tasks[n].events, "addStyling") > 0

----------------------------------------------------------------------------
(* C3 *)

\* the entry a load attempt read from the registry
Entry(t) == IF variant = 1 THEN t.url ELSE [js |-> t.js, css |-> t.css]

\* C3: when init is called with an overrides mapping, applyOverrides is called
\* once, with exactly that mapping, after the fetch has resolved and before
\* any component load is started, and every load of that init reads the
\* overridden entry.
C3_OverridesBetweenFetchAndLoads ==
    \A i \in InitCalls :
        "overrides" \in DOMAIN calls[i].options =>
            LET ev == calls[i].events
                ov == calls[i].options.overrides
            IN  /\ Cardinality(At(ev, "applyOverrides")) <= 1
                \* init has come back from its await
                /\ (calls[i].fetch = "resolved" /\ calls[i].ml \in {"none", "resolved"}
                       /\ calls[i].stage # "awaitFetch") =>
                       At(ev, "loadAll") # {}
                /\ (At(ev, "loadAll") # {} \/ TasksOf(i) # {}) =>
                       /\ Cardinality(At(ev, "applyOverrides")) = 1
                       /\ ev[First(ev, "applyOverrides")].arg = ov
                       /\ First(ev, "fetchResolved") > 0
                       /\ First(ev, "fetchResolved") < First(ev, "applyOverrides")
                       /\ First(ev, "applyOverrides") < First(ev, "loadAll")
                       /\ \A c \in DOMAIN ov : \E n \in TasksOf(i) : tasks[n].component = c
                       /\ \A n \in TasksOf(i) :
                              tasks[n].component \in DOMAIN ov =>
                                  tasks[n].found /\ Entry(tasks[n]) = ov[tasks[n].component]

\* an init with an override for A has loaded A from the overriding entry
C3_Witness ==
    \E i \in InitCalls :
        /\ "overrides" \in DOMAIN calls[i].options
        /\ "A" \in DOMAIN calls[i].options.overrides
        /\ \E n \in TasksOf(i) :
               /\ tasks[n].component = "A"
               /\ Entry(tasks[n]) = calls[i].options.overrides["A"]
               /\ First(tasks[n].events, "addStyling") > 0

----------------------------------------------------------------------------
(* C4 *)

\* the layer the "ef-overrides" slot holds, empty when the key is absent
Persisted ==
    IF "ef-overrides" \in DOMAIN localStorage
    THEN localStorage["ef-overrides"] ELSE EmptyMap

\* the entry a load would read from the persisted value of a component:
\* revision 1 takes the URL string itself, revision 2 reads the value's js
\* and css properties, which a URL string does not have
PersistedEntry(c) ==
    IF variant = 1 THEN Persisted[c] ELSE [js |-> Null, css |-> Null]

\* the overrides an init call was given, empty when it was given none
CallerOverrides(i) ==
    IF "overrides" \in DOMAIN calls[i].options
    THEN calls[i].options.overrides ELSE EmptyMap

\* C4: override layering, persisted wins: a component with an entry in the
\* fetched registry, in the caller's overrides and in the persisted slot is
\* loaded from the persisted entry; one overridden by the caller only is
\* loaded from the caller's entry.
C4_PersistedWins ==
    \A i \in InitCalls : \A n \in TasksOf(i) :
        LET c == tasks[n].component
            fetchedReg == Remote(variant, calls[i].options.systemCode)
        IN  /\ (c \in DOMAIN fetchedReg /\ c \in DOMAIN CallerOverrides(i)
                   /\ c \in DOMAIN Persisted)
                  => Entry(tasks[n]) = PersistedEntry(c)
            /\ (c \in DOMAIN CallerOverrides(i) /\ c \notin DOMAIN Persisted)
                  => Entry(tasks[n]) = CallerOverrides(i)[c]

----------------------------------------------------------------------------
(* C5 - C8: one load attempt and its registry entry *)

\* Revision 1 keeps one combined URL per component: an entry is that URL or
\* is absent.  An entry with a script URL and a stylesheet URL, either of
\* which may be missing, exists in revision 2 only.
HasAssetEntry(t) == variant = 2 /\ t.found

LacksAsset(t) == HasAssetEntry(t) /\ (t.js = Null \/ t.css = Null)

HasBothAssets(t) == HasAssetEntry(t) /\ t.js # Null /\ t.css # Null

\* the operations of a load attempt that load the component
LoadingOps == {"addStyling", "importModule", "createModuleScript", "init", "mount"}

Untouched(t) == \A n \in DOMAIN t.events : t.events[n].op \notin LoadingOps

\* C5: a load of a component whose entry lacks the script URL, the stylesheet
\* URL or both reports exactly one message, "Missing <parts> URL for component
\* X", with <parts> "JS", "CSS" or "JS and CSS".
C5_MissingPartsNamed ==
    \A n \in DOMAIN tasks :
        LET t == tasks[n]
            parts == IF t.js = Null /\ t.css = Null THEN "JS and CSS"
                     ELSE IF t.js = Null THEN "JS" ELSE "CSS"
        IN  LacksAsset(t) =>
                /\ Len(t.logs) = 1
                /\ t.logs[1].msg = "Missing " \o parts \o " URL for component " \o t.component

\* the three cases have been reported: script only, stylesheet only, both
C5_Witness ==
    /\ \E n \in DOMAIN tasks :
          /\ tasks[n].js = Null /\ tasks[n].css = Null
          /\ tasks[n].logs = <<Log("console", "Missing JS and CSS URL for component B", NoError)>>
    /\ \E n \in DOMAIN tasks :
          /\ tasks[n].js # Null /\ tasks[n].css = Null
          /\ tasks[n].logs = <<Log("console", "Missing CSS URL for component A", NoError)>>

\* the components loadAll enumerated for a call
Enumerated(i) ==
    LET ev == calls[i].events
    IN  IF First(ev, "loadAll") = 0 THEN {}
        ELSE { ev[First(ev, "loadAll")].arg[k] : k \in DOMAIN ev[First(ev, "loadAll")].arg }

\* C6: a component whose entry lacks the script URL or the stylesheet URL is
\* never loaded (no styling call, no module-loader call, no lifecycle hook),
\* its load resolves, and the other components of its batch are still loaded.
C6_InvalidSkippedNotFatal ==
    \A n \in DOMAIN tasks :
        LET t == tasks[n] IN
        LacksAsset(t) =>
            /\ Untouched(t)
            /\ t.promise = "resolved"
            /\ t.pc = "skipped"
            /\ t.batch > 0 =>
                  \A c \in Enumerated(t.call) :
                      \E m \in TasksOf(t.call) :
                          /\ tasks[m].component = c
                          /\ HasBothAssets(tasks[m]) =>
                                First(tasks[m].events, "addStyling") > 0

\* a batch holds a component without script URL, skipped, beside one that was
\* loaded and has mounted
C6_Witness ==
    \E n, m \in DOMAIN tasks :
        /\ LacksAsset(tasks[n])
        /\ tasks[n].pc = "skipped"
        /\ tasks[m].call = tasks[n].call
        /\ tasks[m].batch > 0
        /\ HasBothAssets(tasks[m])
        /\ First(tasks[m].events, "mountDone") > 0

\* the message each revision reports for a component without entry
NotFoundLog(c) ==
    IF variant = 1
    THEN Log("logger", "Component " \o c \o " was not found in the Component Registry", NoError)
    ELSE Log("console", "Failed to retrieve URL for component " \o c, NoError)

\* C7: a load of a name without registry entry reports one "not found" error
\* naming the component and resolves with no further action: no styling
\* call, no module-loader call, no lifecycle hook.
C7_NotFoundReportedAndSkipped ==
    \A n \in DOMAIN tasks :
        LET t == tasks[n] IN
        ~t.found =>
            /\ t.logs = <<NotFoundLog(t.component)>>
            /\ t.promise = "resolved"
            /\ t.unhandled = <<>>
            /\ Untouched(t)

\* load was called for a name the registry does not hold
C7_Witness ==
    \E n \in DOMAIN tasks :
        /\ ~tasks[n].found
        /\ tasks[n].component \notin DOMAIN registry
        /\ Len(tasks[n].logs) = 1

\* the registry an init call's loads read: what was fetched, patched with
\* the caller's overrides
RegistryOf(i) ==
    applyOverrides(Remote(variant, calls[i].options.systemCode), CallerOverrides(i))

\* C8: for a component whose entry has both URLs, load calls the styling
\* collaborator with exactly the entry's stylesheet URL and, unless that call
\* throws, the module-loading collaborator with exactly the entry's script
\* URL.
C8_AssetsPassedUnchanged ==
    \A n \in DOMAIN tasks :
        LET t == tasks[n]
            ev == t.events
            loader == At(ev, "createModuleScript") \cup At(ev, "importModule")
        IN  HasBothAssets(t) =>
                /\ Cardinality(At(ev, "addStyling")) = 1
                /\ ev[First(ev, "addStyling")].arg = t.css
                /\ \A m \in loader : ev[m].arg = t.js
                /\ Cardinality(loader) = (IF behaviour[t.component].style = "throw" THEN 0 ELSE 1)
                /\ calls[t.call].op = "init" =>
                      /\ t.js = RegistryOf(t.call)[t.component].js
                      /\ t.css = RegistryOf(t.call)[t.component].css

\* an init has loaded A from the caller's overriding entry: the stylesheet
\* went to the styling collaborator, the script to the module loader
C8_Witness ==
    \E n \in DOMAIN tasks :
        /\ HasBothAssets(tasks[n])
        /\ tasks[n].events[2] = Event("addStyling", "a2.css")
        /\ tasks[n].events[3] = Event("createModuleScript", "a2.js")

----------------------------------------------------------------------------
(* C9 *)

\* the load attempt got a module and entered executeLifecycleMethods
InLifecycle(t) == t.pc \in {"awaitInit", "awaitMount", "done"}

\* C9: within one load the lifecycle order is fixed: when the module exposes
\* init and mount, mount is invoked only after init was invoked and has
\* completed; a hook the module does not expose is skipped, and skipping it
\* reports no error.
C9_InitCompletesBeforeMount ==
    \A n \in DOMAIN tasks :
        LET t == tasks[n]
            ev == t.events
            k == behaviour[t.component]
        IN  /\ Cardinality(At(ev, "init")) <= 1
            /\ Cardinality(At(ev, "mount")) <= 1
            /\ (Exposes(k, "init") /\ At(ev, "mount") # {}) =>
                   /\ 0 < First(ev, "init")
                   /\ First(ev, "init") < First(ev, "initDone")
                   /\ First(ev, "initDone") < First(ev, "mount")
            /\ ~Exposes(k, "init") => At(ev, "init") = {}
            /\ ~Exposes(k, "mount") => At(ev, "mount") = {}
            /\ (InLifecycle(t) /\ (~Exposes(k, "init") \/ ~Exposes(k, "mount"))
                   /\ k.init # "reject" /\ k.mount # "reject") =>
                   t.logs = <<>> /\ t.unhandled = <<>>

\* a module with both hooks has had init invoked and completed, then mount
\* invoked and completed
C9_Witness ==
    \E n \in DOMAIN tasks :
        /\ Exposes(behaviour[tasks[n].component], "init")
        /\ Exposes(behaviour[tasks[n].component], "mount")
        /\ First(tasks[n].events, "initDone") > First(tasks[n].events, "init")
        /\ First(tasks[n].events, "mount") > First(tasks[n].events, "initDone")
        /\ First(tasks[n].events, "mountDone") > First(tasks[n].events, "mount")
        /\ tasks[n].pc = "done"

----------------------------------------------------------------------------
(* C10 *)

\* the module of the component resolves and both its hooks succeed
Healthy(k) == k.style = "ok" /\ k.imp = "ok" /\ k.init = "ok" /\ k.mount = "ok"

\* the module's resolution rejects, or one of its hooks does
Failing(k) == k.style = "ok" /\ (k.imp = "reject" \/ k.init = "reject" \/ k.mount = "reject")

\* the registry of the init call holds a loadable entry for the component
Loadable(i, c) ==
    /\ c \in DOMAIN RegistryOf(i)
    /\ variant = 2 => RegistryOf(i)[c].js # Null /\ RegistryOf(i)[c].css # Null

\* the pairs (a, b) of an init call's batch, a healthy and b failing
IsolationPairs(i) ==
    { p \in Names \X Names :
        /\ First(calls[i].events, "loadAll") > 0
        /\ Loadable(i, p[1]) /\ Healthy(behaviour[p[1]])
        /\ Loadable(i, p[2]) /\ Failing(behaviour[p[2]]) }

C10_BatchWithFailure == \E i \in InitCalls : IsolationPairs(i) # {}

C10_HealthyMountedBatchResolved ==
    \A i \in InitCalls : \A p \in IsolationPairs(i) :
        /\ calls[i].state = "resolved"
        /\ \E n \in TasksOf(i) : tasks[n].component = p[1]
        /\ \A n \in TasksOf(i) :
               tasks[n].component = p[1] =>
                   /\ First(tasks[n].events, "initDone") > 0
                   /\ First(tasks[n].events, "mountDone") > 0

\* C10: fault isolation in loadAll: when the module resolution or a hook of
\* one registered component rejects while another's module resolves and its
\* hooks succeed, the other's init and mount hooks still run to completion
\* and the promise of loadAll (and of init) resolves.
C10_FaultIsolation == C10_BatchWithFailure ~> C10_HealthyMountedBatchResolved

\* an init has resolved with one component failed and reported or left
\* rejected, and the other mounted
C10_Witness ==
    \E i \in InitCalls : \E p \in IsolationPairs(i) :
        /\ calls[i].state = "resolved"
        /\ \E n \in TasksOf(i) : tasks[n].component = p[2] /\ tasks[n].pc = "failed"
        /\ \E n \in TasksOf(i) :
               tasks[n].component = p[1] /\ First(tasks[n].events, "mountDone") > 0

----------------------------------------------------------------------------
(* C11 *)

\* C11: load never rejects to its caller: whatever fails while a component
\* is loaded (the styling step, the module's resolution, its init or its
\* mount hook), the promise load returned resolves, and no rejection is left
\* without a handler.
C11_LoadNeverRejects ==
    \A n \in DOMAIN tasks :
        /\ tasks[n].promise # "rejected"
        /\ tasks[n].unhandled = <<>>

----------------------------------------------------------------------------
(* C12 *)

\* the failures that occurred in a load attempt: rejections of the module
\* loader and of the two hooks
Rejections(t) ==
    { e \in {"ImportError", "InitError", "MountError"} :
        \/ e = "ImportError" /\
              \/ At(t.events, "importRejected") # {}
              \/ At(t.events, "createModuleScript") # {}
                    /\ behaviour[t.component].imp = "reject"
        \/ e = "InitError" /\ At(t.events, "initRejected") # {}
        \/ e = "MountError" /\ At(t.events, "mountRejected") # {} }

\* the messages with which a failed load of the component is reported
FailureMessages(c) ==
    { "Error when mounting component " \o c \o " using SystemJS",
      "Failed to initialise and mount " \o c,
      "Failed to load component " \o c \o " using SystemJS",
      "Error loading " \o c }

\* the attempt reported the error together with its component's name
Reported(t, e) ==
    \E l \in DOMAIN t.logs :
        t.logs[l].error = e /\ t.logs[l].msg \in FailureMessages(t.component)

\* C12: every rejection of the module loader and every rejection of an init
\* or mount hook met while a component is loaded is reported through the
\* logging sink with the component's name and the error itself.
C12_EveryRejectionReported ==
    \A n \in DOMAIN tasks : \A e \in Rejections(tasks[n]) : Reported(tasks[n], e)

----------------------------------------------------------------------------
(* C13 *)

\* the calls that run a batch: init, or loadAll called directly
BatchCalls == { i \in DOMAIN calls : calls[i].op \in {"init", "loadAll"} }

\* the attempt is over: the hooks completed, or it failed, or it was skipped
Terminal(t) == t.pc \in {"done", "failed", "skipped"}

\* C13: once the promise of init (or of loadAll) has resolved, every load
\* attempt of its batch is over: no hook is still pending or yet to start.
C13_SettleBarrier ==
    \A i \in BatchCalls :
        calls[i].state = "resolved" => \A n \in TasksOf(i) : Terminal(tasks[n])

----------------------------------------------------------------------------
(* C14 *)

\* the init call neither applied overrides nor started a load
NothingStarted(i) ==
    /\ At(calls[i].events, "applyOverrides") = {}
    /\ At(calls[i].events, "loadAll") = {}
    /\ TasksOf(i) = {}

\* C14 as stated: when the registry's fetch rejects, init rejects with that
\* failure, having applied no overrides and started no load.
C14_FetchFailureIsInitsFailure ==
    \A i \in InitCalls :
        calls[i].fetch = "rejected" =>
            /\ calls[i].state = "rejected"
            /\ calls[i].error = "FetchError"
            /\ NothingStarted(i)

\* C14: when the registry's fetch rejects, init rejects, with the failure of
\* the fetch unless the module loader's own init had rejected before (then
\* with that one), and in either case init applies no overrides and starts
\* no load.
C14_FetchFailureRejectsInit ==
    \A i \in InitCalls :
        calls[i].fetch = "rejected" =>
            /\ calls[i].state = "rejected"
            /\ \/ calls[i].error = "FetchError"
               \/ calls[i].error = "ModuleLoaderError" /\ calls[i].ml = "rejected"
            /\ calls[i].ml # "rejected" => calls[i].error = "FetchError"
            /\ NothingStarted(i)

\* an init called with overrides has been rejected with the failure of its fetch
C14_Witness ==
    \E i \in InitCalls :
        /\ Has(calls[i].options, "overrides")
        /\ calls[i].fetch = "rejected"
        /\ calls[i].state = "rejected"
        /\ calls[i].error = "FetchError"

----------------------------------------------------------------------------
(* C15 *)

\* C15: an init call with a valid systemCode invokes the module loader's own
\* init() exactly once, and that init() has completed before the first load
\* of the call's batch begins.
C15_ModuleLoaderInitOnceBeforeLoads ==
    \A i \in InitCalls :
        validateOptions(calls[i].options) = NoError =>
            /\ Cardinality(At(calls[i].events, "moduleLoader.init")) = 1
            /\ TasksOf(i) # {} => calls[i].ml = "resolved"

----------------------------------------------------------------------------
(* C16 *)

\* the registry has been read: by a load (the lookup of its component) or by
\* a loadAll (the enumeration of the names)
RegistryRead ==
    \/ \E n \in DOMAIN tasks : At(tasks[n].events, "getURL") # {}
    \/ \E i \in DOMAIN calls : At(calls[i].events, "loadAll") # {}

\* C16 as stated: whatever public calls are made, the registry is not read
\* by a load attempt unless a fetch of the registry has completed before.
C16_NoReadBeforeFetch == RegistryRead => fetched

\* C16: the loads an init starts read the registry only after the fetch of
\* that init has completed; load and loadAll called directly before any
\* fetch has completed read the registry as it is, empty: such a load finds
\* no entry and loads nothing, such a loadAll enumerates no component.
C16_InitReadsAfterFetch ==
    /\ \A i \in InitCalls :
           (At(calls[i].events, "loadAll") # {} \/ TasksOf(i) # {}) =>
               /\ calls[i].fetch = "resolved"
               /\ 0 < First(calls[i].events, "fetchResolved")
               /\ First(calls[i].events, "fetchResolved") < First(calls[i].events, "loadAll")
    /\ ~fetched =>
           /\ \A n \in DOMAIN tasks :
                  ~tasks[n].found /\ tasks[n].pc = "skipped" /\ Untouched(tasks[n])
           /\ \A i \in DOMAIN calls : Enumerated(i) = {}

\* a component was looked up by a direct load that found no entry, and by a
\* load of an init whose fetch had brought its entry
C16_Witness ==
    \E n, m \in DOMAIN tasks :
        /\ tasks[n].batch = 0 /\ ~tasks[n].found
        /\ tasks[m].call \in InitCalls /\ tasks[m].found
        /\ tasks[m].component = tasks[n].component

----------------------------------------------------------------------------
(* C17 *)

\* the attempt found a loadable entry for its component
Valid(t) ==
    IF variant = 1 THEN t.found /\ ~Falsy(t.url) ELSE HasBothAssets(t)

\* the calls a load attempt made to the module loader
LoaderCalls(t) == At(t.events, "importModule") \cup At(t.events, "createModuleScript")

\* two attempts at the same component, from the same registry entry
SameLoad(t, u) ==
    /\ t.component = u.component
    /\ t.url = u.url /\ t.js = u.js /\ t.css = u.css

\* every attempt at a valid component does its own work: one styling call,
\* one module-loader call (none when the styling call threw), init invoked
\* and completed before mount; and attempts at the same component that have
\* come equally far have done the same, whatever became of the other
EachAttemptOnItsOwn ==
    /\ \A n \in DOMAIN tasks :
           LET t == tasks[n]
           IN  Valid(t) =>
                   /\ Cardinality(At(t.events, "addStyling")) = 1
                   /\ Cardinality(LoaderCalls(t)) =
                          (IF behaviour[t.component].style = "throw" THEN 0 ELSE 1)
                   /\ Cardinality(At(t.events, "init")) <= 1
                   /\ Cardinality(At(t.events, "mount")) <= 1
                   /\ (At(t.events, "init") # {} /\ At(t.events, "mount") # {}) =>
                          /\ First(t.events, "init") < First(t.events, "initDone")
                          /\ First(t.events, "initDone") < First(t.events, "mount")
    /\ \A n, m \in DOMAIN tasks :
           (Valid(tasks[n]) /\ SameLoad(tasks[n], tasks[m]) /\ tasks[n].pc = tasks[m].pc) =>
               /\ tasks[n].events = tasks[m].events
               /\ tasks[n].promise = "rejected" <=> tasks[m].promise = "rejected"

\* a step in which a load attempt moves on (or fails) changes no other
\* attempt and leaves the registry as it was
OneAttemptMoves ==
    \A n \in DOMAIN tasks :
        tasks'[n] # tasks[n] =>
            /\ \A m \in DOMAIN tasks : m # n => tasks'[m] = tasks[m]
            /\ registry' = registry

\* C17: load called twice for the same valid component gives two independent
\* attempts: each calls styling once and module loading once and runs its own
\* init-before-mount sequence, and the failure of one neither rejects nor
\* changes the other, nor alters the registry.
C17_IndependentAttempts == []EachAttemptOnItsOwn /\ [][OneAttemptMoves]_vars

\* load was called for a valid component by the caller and by loadAll; one
\* of the two attempts has failed while the other is still under way
C17_Witness ==
    \E n, m \in DOMAIN tasks :
        /\ n # m
        /\ Valid(tasks[n]) /\ SameLoad(tasks[n], tasks[m])
        /\ tasks[n].batch = 0 \/ tasks[m].batch = 0
        /\ tasks[n].pc = "failed"
        /\ tasks[m].pc \in {"awaitImport", "awaitInit", "awaitMount"}

----------------------------------------------------------------------------
(* C18 *)

\* the load attempts a batch made for one component
AttemptsAt(i, c) == { n \in TasksOf(i) : tasks[n].component = c }

\* the calls of one operation made for a component in a batch, over all the
\* attempts at it
OpsAt(i, c, op) ==
    UNION { { <<n, k>> : k \in At(tasks[n].events, op) } : n \in AttemptsAt(i, c) }

\* the failure reports written for a component in a batch
FailureReports(i, c) ==
    UNION { { <<n, l>> : l \in { x \in DOMAIN tasks[n].logs :
                                    tasks[n].logs[x].error # NoError } }
            : n \in AttemptsAt(i, c) }

\* C18: one pass of loadAll issues exactly one load per name of the registry
\* snapshot: for a valid component one styling call, one module-loader call,
\* each hook invoked at most once, and a failure reported once, not twice.
C18_OneLoadPerComponent ==
    \A i \in BatchCalls : \A c \in Enumerated(i) :
        /\ Cardinality(AttemptsAt(i, c)) = 1
        /\ (\E n \in AttemptsAt(i, c) : Valid(tasks[n])) =>
               /\ Cardinality(OpsAt(i, c, "addStyling")) = 1
               /\ Cardinality(OpsAt(i, c, "importModule")
                                  \cup OpsAt(i, c, "createModuleScript")) <= 1
               /\ Cardinality(OpsAt(i, c, "init")) <= 1
               /\ Cardinality(OpsAt(i, c, "mount")) <= 1
        /\ Cardinality(FailureReports(i, c)) <= 1

----------------------------------------------------------------------------
(* C19 *)

\* the attempt waits for a module resolution or a hook that never settles
Stuck(t) ==
    LET k == behaviour[t.component]
    IN  \/ t.pc = "awaitImport" /\ k.imp = "hang"
        \/ t.pc = "awaitInit" /\ k.init = "hang"
        \/ t.pc = "awaitMount" /\ k.mount = "hang"

\* the pairs (a, b) of a batch: a load of a is stuck, b is valid and healthy
StalledPairs(i) ==
    { p \in Enumerated(i) \X Enumerated(i) :
        /\ \E n \in AttemptsAt(i, p[1]) : Stuck(tasks[n])
        /\ Healthy(behaviour[p[2]])
        /\ \A n \in AttemptsAt(i, p[2]) : Valid(tasks[n]) }

\* loadAll has started a load for every name it enumerated
AllInitiated ==
    \A i \in BatchCalls : \A c \in Enumerated(i) : AttemptsAt(i, c) # {}

C19_BatchWithStuckLoad == \E i \in BatchCalls : StalledPairs(i) # {}

C19_OthersMounted ==
    \A i \in BatchCalls : \A p \in StalledPairs(i) :
        /\ AttemptsAt(i, p[2]) # {}
        /\ \A n \in AttemptsAt(i, p[2]) :
               /\ First(tasks[n].events, "initDone") > 0
               /\ First(tasks[n].events, "mountDone") > 0
               /\ tasks[n].pc = "done"

\* C19: loadAll starts the load of every registered component without
\* waiting for an earlier one to finish: a component whose module resolution
\* or hook never completes keeps no other component's load from being
\* started, nor its init and mount hooks from completing.
C19_NoHeadOfLineBlocking ==
    []AllInitiated /\ (C19_BatchWithStuckLoad ~> C19_OthersMounted)

\* a load of one component of the batch is stuck for good and the other
\* component has been initialised and mounted
C19_Witness ==
    \E i \in BatchCalls : \E p \in StalledPairs(i) :
        \E n \in AttemptsAt(i, p[2]) :
            tasks[n].pc = "done" /\ First(tasks[n].events, "mountDone") > 0

----------------------------------------------------------------------------
(* C20 *)

\* C20: within one load, mount is never invoked once the module's init hook
\* has rejected, and no hook at all is invoked when the module's resolution
\* rejected.
C20_NoHookAfterFailure ==
    \A n \in DOMAIN tasks :
        LET t == tasks[n]
        IN  /\ "InitError" \in Rejections(t) => At(t.events, "mount") = {}
            /\ "ImportError" \in Rejections(t) =>
                   At(t.events, "init") = {} /\ At(t.events, "mount") = {}

\* the init hook of a module that exposes mount as well has rejected, and the
\* load is over
C20_Witness ==
    \E n \in DOMAIN tasks :
        /\ Exposes(behaviour[tasks[n].component], "mount")
        /\ At(tasks[n].events, "initRejected") # {}
        /\ tasks[n].pc = "failed"

====
